---- MODULE Spec2Model ----
(***************************************************************************)
(* A model of @moxy/next-rest-api (src/index.js): the dispatcher withRest, *)
(* the validation wrapper withValidation and the two default hooks.        *)
(*                                                                         *)
(* One request is one run of the async function withRest returns.  A run   *)
(* is cut at its awaits: every action below is one synchronous stretch of  *)
(* JavaScript.  The collaborators (the Node/Next.js response object, Boom, *)
(* Joi) are modelled by what src/index.js asks of them and by what         *)
(* src/index.test.js observes of them.                                     *)
(***************************************************************************)
EXTENDS Integers, Sequences, FiniteSets, TLC

VARIABLES
    methods,    \* the method map given to withRest (or undefined)
    options,    \* which hooks were supplied in options: "default" or "custom"
    req,        \* req[r]: the request object of run r
    raw,        \* raw[r]: the request as it came in (never changed)
    res,        \* res[r]: the response object of run r
    pc,         \* pc[r]: where run r stands
    outcome,    \* outcome[r]: how the promise returned by the handler settled
    seen,       \* seen[r]: req as the handler saw it when it was invoked
    trace,      \* trace[r]: hook calls and response calls of run r, in order
    result,     \* result[r]: how the promise returned by withRest settled
    console     \* what console.error printed, in order

vars == <<methods, options, req, raw, res, pc, outcome, seen, trace, result, console>>

(***************************************************************************)
(* Bounds.                                                                 *)
(***************************************************************************)
\* the longest run of blanks around a value of the request
MaxPad == 1

(***************************************************************************)
(* JavaScript values.                                                      *)
(***************************************************************************)
Undefined == [t |-> "undefined"]
Null == [t |-> "null"]
\* { foo: 'bar' } and { hello: 'world' }, the two objects of the tests
FooBar == [t |-> "object", v |-> "{foo:bar}"]
HelloWorld == [t |-> "object", v |-> "{hello:world}"]
\* a falsy value that is neither null nor undefined
Zero == [t |-> "number", v |-> "0"]

\* a strict comparison in the place of the loose one: json === undefined
IsUndefinedOnly(v) == v.t = "undefined"

\* json == null (loose equality): true of null and of undefined only
IsNullish(v) == v.t \in {"undefined", "null"}

PlainError(m) == [k |-> "Error", message |-> m]

\* err.stack, as far as the tests look at it: "<name>: <message>"
Stack(e) == "Error: " \o e.message

(***************************************************************************)
(* Boom.                                                                   *)
(***************************************************************************)
StatusLabel(code) ==
    CASE code = 400 -> "Bad Request"
      [] code = 401 -> "Unauthorized"
      [] code = 403 -> "Forbidden"
      [] code = 405 -> "Method Not Allowed"
      [] OTHER -> "Internal Server Error"

\* the client never sees the message of a 500
BoomPayloadMessage(code, message) ==
    IF code = 500 THEN "An internal server error occurred" ELSE message

BoomPayload(code, message) ==
    [statusCode |-> code,
     error |-> StatusLabel(code),
     message |-> BoomPayloadMessage(code, message)]

\* new Boom(message, { statusCode, data })
BoomNew(code, message, data) ==
    [k |-> "Boom",
     message |-> message,
     data |-> data,
     isServer |-> code >= 500,
     output |-> [statusCode |-> code,
                 headers |-> <<>>,
                 payload |-> BoomPayload(code, message)]]

IsBoom(err) == err.k = "Boom"

BoomMethodNotAllowed(message) == BoomNew(405, message, Null)
BoomBadRequest(message, data) == BoomNew(400, message, data)
BoomForbidden(message, data) == BoomNew(403, message, data)
BoomInternal(message, data) == BoomNew(500, message, data)

\* Boom.unauthorized(message, scheme): the one error of the tests with a header
BoomUnauthorized(message, scheme) ==
    [k |-> "Boom",
     message |-> message,
     data |-> Null,
     isServer |-> FALSE,
     output |-> [statusCode |-> 401,
                 headers |-> << <<"WWW-Authenticate",
                                  scheme \o " error=\"" \o message \o "\"">> >>,
                 payload |-> [statusCode |-> 401,
                              error |-> StatusLabel(401),
                              message |-> message,
                              attributes |-> [error |-> message]]]]

\* the data objects of the tests
DataOriginal(e) == [t |-> "object", originalError |-> e]
DataBarBaz == [t |-> "object", originalError |-> Undefined]

(***************************************************************************)
(* The response object: Node's ServerResponse with the helpers Next.js     *)
(* adds (status, json, send).                                              *)
(***************************************************************************)
HeaderNames == {"Content-Type", "Content-Length", "WWW-Authenticate"}

JsonContentType == "application/json; charset=utf-8"

NewResponse ==
    [headersSent |-> FALSE,
     statusCode |-> 200,
     headers |-> [h \in HeaderNames |-> ""],
     body |-> [kind |-> "none"]]

OpSetHeader(key, value) == [op |-> "setHeader", key |-> key, value |-> value]
OpStatus(code) == [op |-> "status", code |-> code]
OpJson(body) == [op |-> "json", body |-> body]
OpSend(body) == [op |-> "send", body |-> body]
OpEnd(text) == [op |-> "end", text |-> text]

\* res.setHeader: refused once the headers are flushed
ResSetHeader(r, key, value) ==
    IF r.headersSent
    THEN [res |-> r, threw |-> TRUE]
    ELSE [res |-> [r EXCEPT !.headers[key] = value], threw |-> FALSE]

\* res.status(code): sets statusCode on the object, returns res
ResStatus(r, code) == [res |-> [r EXCEPT !.statusCode = code], threw |-> FALSE]

\* res.end(text): flushes the headers and writes the body as given
ResEnd(r, body) ==
    IF r.headersSent
    THEN [res |-> r, threw |-> FALSE]
    ELSE [res |-> [r EXCEPT !.headersSent = TRUE, !.body = body], threw |-> FALSE]

\* res.send(body) of Next.js: null ends the response with no body at all
ResSend(r, body) ==
    IF body = Null THEN ResEnd(r, [kind |-> "empty"])
    ELSE IF body = Undefined \/ r.headersSent THEN [res |-> r, threw |-> TRUE]
    ELSE ResEnd([r EXCEPT !.headers["Content-Type"] = JsonContentType,
                          !.headers["Content-Length"] = "byteLength(body)"],
                [kind |-> "json", value |-> body])

\* res.json(body) of Next.js: sets the content type, then sends
ResJson(r, body) ==
    IF r.headersSent THEN [res |-> r, threw |-> TRUE]
    ELSE ResSend([r EXCEPT !.headers["Content-Type"] = JsonContentType], body)

ResApply(r, o) ==
    CASE o.op = "setHeader" -> ResSetHeader(r, o.key, o.value)
      [] o.op = "status" -> ResStatus(r, o.code)
      [] o.op = "json" -> ResJson(r, o.body)
      [] o.op = "send" -> ResSend(r, o.body)
      [] OTHER -> ResEnd(r, [kind |-> "text", text |-> o.text])

(***************************************************************************)
(* A synchronous stretch of a run works on m: the response, the trace, the *)
(* console, and whether an exception is propagating.  A statement is not   *)
(* executed while an exception propagates.                                 *)
(***************************************************************************)
\* the response kept in a variable shared by all runs instead of the parameter
MachineOfFirstRun(r) ==
    [res |-> res[1], trace |-> trace[r], console |-> console, threw |-> FALSE]

Machine(r) ==
    [res |-> res[r], trace |-> trace[r], console |-> console, threw |-> FALSE]

Note(m, e) == [m EXCEPT !.trace = Append(@, e)]

\* the calls ops made on the response by `by`, one after the other
RECURSIVE Calls(_, _, _)
Calls(m, by, ops) ==
    IF m.threw \/ ops = <<>> THEN m
    ELSE LET o == Head(ops)
             a == ResApply(m.res, o)
             m1 == [Note(m, [ev |-> "res", by |-> by, call |-> o])
                       EXCEPT !.res = a.res, !.threw = a.threw]
         IN Calls(m1, by, Tail(ops))

ConsoleError(m, text) == [m EXCEPT !.console = Append(@, text)]

(***************************************************************************)
(* The hooks.                                                              *)
(***************************************************************************)
HasOriginalError(err) ==
    /\ err.data # Null
    /\ err.data.originalError # Undefined

\* the logger of release 1.0.0, which printed the stack of the Boom error only
defaultLogErrorOwnStack(m, err) ==
    IF ~err.isServer THEN m ELSE ConsoleError(m, Stack(err))

defaultLogError(m, err) ==
    IF ~err.isServer THEN m
    ELSE IF HasOriginalError(err) THEN ConsoleError(m, Stack(err.data.originalError))
    ELSE ConsoleError(m, Stack(err))

HeaderOps(headers) == [i \in 1..Len(headers) |-> OpSetHeader(headers[i][1], headers[i][2])]

defaultSendError(m, err) ==
    Calls(m, "sendError",
          HeaderOps(err.output.headers)
              \o <<OpStatus(err.output.statusCode), OpJson(err.output.payload)>>)

\* the logError of the tests: console.error(`> ${error.message}`)
customLogError(m, err) == ConsoleError(m, "> " \o err.message)

\* the sendError of the tests: res.status(500).send({ errorMessage: error.message })
customSendError(m, err) ==
    Calls(m, "sendError",
          <<OpStatus(500), OpSend([t |-> "object", errorMessage |-> err.message])>>)

\* options.logError(err): the hook options holds after the spread of line 105-109
LogError(m, err) ==
    LET m1 == Note(m, [ev |-> "logError", impl |-> options.logError, err |-> err])
    IN IF options.logError = "custom" THEN customLogError(m1, err)
       ELSE defaultLogError(m1, err)

\* options.sendError(res, err)
SendError(m, err) ==
    LET m1 == Note(m, [ev |-> "sendError", impl |-> options.sendError, err |-> err])
    IN IF options.sendError = "custom" THEN customSendError(m1, err)
       ELSE defaultSendError(m1, err)

(***************************************************************************)
(* Requests and Joi.                                                       *)
(***************************************************************************)
HttpMethods == {"GET", "POST", "DELETE"}

\* the keys withValidation copies back, in the order of the composite schema
Keys == <<"query", "body", "headers">>
KeySet == {"query", "body", "headers"}

Blanks(n) == [i \in 1..n |-> " "]

\* the values a field of the request can have: a letter with blanks around it
Padded(letter, l, r) == Blanks(l) \o <<letter>> \o Blanks(r)

EmptyObject == [t |-> "object"]
WithFoo(s) == [t |-> "object", foo |-> s]

\* the letter that tells the three segments of a request apart
Letter(key) ==
    CASE key = "query" -> "q" [] key = "body" -> "b" [] OTHER -> "h"

\* a request: the segments of `present` carry a foo, the others are {}
Segment(key, present, l, r) ==
    IF key \in present THEN WithFoo(Padded(Letter(key), l, r)) ELSE EmptyObject

Request(method, present, l, r) ==
    [method |-> method,
     query |-> Segment("query", present, l, r),
     body |-> Segment("body", present, l, r),
     headers |-> Segment("headers", present, l, r)]

Requests ==
    {Request(m, p, l, r) : m \in HttpMethods, p \in SUBSET KeySet,
                           l \in 0..MaxPad, r \in 0..MaxPad}

\* Joi.string().trim()
RECURSIVE TrimLeft(_)
TrimLeft(s) == IF s # <<>> /\ Head(s) = " " THEN TrimLeft(Tail(s)) ELSE s

RECURSIVE TrimRight(_)
TrimRight(s) ==
    IF s # <<>> /\ s[Len(s)] = " " THEN TrimRight(SubSeq(s, 1, Len(s) - 1)) ELSE s

Trim(s) == TrimRight(TrimLeft(s))

ValidationError(message) == [k |-> "ValidationError", message |-> message]

\* the schema of one key: Joi.object({ foo: Joi.string().trim().required() })
JoiKey(key, value) ==
    IF value = EmptyObject
    THEN [ok |-> FALSE, error |-> ValidationError("\"" \o key \o ".foo\" is required")]
    ELSE [ok |-> TRUE, value |-> WithFoo(Trim(value.foo))]

\* Joi.object(schemas).unknown(true).validateAsync(req): the first key that
\* fails decides the error; the value is req with the schemas' keys normalised
RECURSIVE JoiFrom(_, _, _)
JoiFrom(i, schemas, value) ==
    IF i > Len(Keys) THEN [ok |-> TRUE, value |-> value]
    ELSE IF Keys[i] \notin schemas THEN JoiFrom(i + 1, schemas, value)
    ELSE LET one == JoiKey(Keys[i], value[Keys[i]])
         IN IF one.ok THEN JoiFrom(i + 1, schemas, [value EXCEPT ![Keys[i]] = one.value])
            ELSE one

validateAsync(schemas, value) == JoiFrom(1, schemas, value)

(***************************************************************************)
(* Handlers and the method map.                                            *)
(***************************************************************************)
\* a handler as written: GET: (req, res) => ...
PlainHandler == [t |-> "function", validated |-> FALSE, schemas |-> {}]
\* a handler wrapped: POST: withValidation(schemas)((req, res) => ...)
ValidatedHandler(schemas) == [t |-> "function", validated |-> TRUE, schemas |-> schemas]

MethodMaps ==
    {Undefined, [t |-> "object", h |-> [m \in {} |-> PlainHandler]], [t |-> "object", h |-> [m \in {"GET"} |-> PlainHandler]]}
        \cup {[t |-> "object",
               h |-> [m \in {"GET", "POST"} |->
                         IF m = "GET" THEN PlainHandler ELSE ValidatedHandler(sc)]] :
              sc \in SUBSET KeySet}

\* methods && methods[req.method]
Lookup(mm, method) ==
    IF mm = Undefined THEN Undefined
    ELSE IF method \in DOMAIN mm.h THEN mm.h[method]
    ELSE Undefined

Hooks == {"default", "custom"}

\* what a handler of the tests can come to
Returned(v) == [kind |-> "return", value |-> v]
Thrown(e) == [kind |-> "throw", error |-> e]
Pending == [kind |-> "none"]

\* (req) => ({ query: req.query, body: req.body, headers: req.headers })
Echo(rq) == [t |-> "object", query |-> rq.query, body |-> rq.body, headers |-> rq.headers]

ThrownErrors ==
    {PlainError("bar"),
     BoomForbidden("foo", DataBarBaz),
     BoomUnauthorized("Invalid password", "sample"),
     BoomInternal("foo", DataBarBaz),
     BoomInternal("foo", DataOriginal(PlainError("bar")))}

Outcomes(rq) ==
    {Returned(v) : v \in {Undefined, Null, FooBar, HelloWorld, Zero, Echo(rq)}}
        \cup {Thrown(e) : e \in ThrownErrors}

\* what a handler does to the response before it completes
HandlerWrites ==
    {<<OpStatus(201)>>, <<OpStatus(201), OpSend(FooBar)>>}

(***************************************************************************)
(* withValidation and withRest.                                            *)
(***************************************************************************)
\* the copy with a key left out of the list
CopyBackWithoutHeaders(rq, validated) ==
    [rq EXCEPT !.body = validated.body,
               !.query = validated.query]

\* ['headers', 'body', 'query'].forEach((key) => { req[key] = validated[key]; })
CopyBack(rq, validated) ==
    [rq EXCEPT !.headers = validated.headers,
               !.body = validated.body,
               !.query = validated.query]

\* the 400 without the message of the validation error
ValidationRejectedNoMessage(err) == BoomBadRequest("Bad Request", DataOriginal(err))

\* line 61: throw Boom.badRequest(err.message, { originalError: err })
ValidationRejected(err) == BoomBadRequest(err.message, DataOriginal(err))

\* what a run throws when a call on the response is refused
ResponseError == PlainError("ERR_HTTP_HEADERS_SENT")

SentAndReturned ==
    BoomInternal("You have sent the response inside your handler but still returned something.", Null)

\* the success path sending with an explicit status: res.status(200).json(json)
SuccessForcesStatus(m, json) ==
    IF m.res.headersSent
    THEN IF json # Undefined THEN LogError(m, SentAndReturned) ELSE m
    ELSE IF IsNullish(json)
         THEN Calls(m, "withRest",
                    <<OpSetHeader("Content-Type", JsonContentType),
                      OpSetHeader("Content-Length", "4"),
                      OpEnd("null")>>)
         ELSE Calls(m, "withRest", <<OpStatus(200), OpJson(json)>>)

\* the success path without the check of res.headersSent
SuccessWithoutSentCheck(m, json) ==
    IF IsNullish(json)
    THEN Calls(m, "withRest",
               <<OpSetHeader("Content-Type", JsonContentType),
                 OpSetHeader("Content-Length", "4"),
                 OpEnd("null")>>)
    ELSE Calls(m, "withRest", <<OpJson(json)>>)

\* the report made with the loose comparison of line 133: json != null
SuccessLooseReport(m, json) ==
    IF m.res.headersSent
    THEN IF ~IsNullish(json) THEN LogError(m, SentAndReturned) ELSE m
    ELSE IF IsNullish(json)
         THEN Calls(m, "withRest",
                    <<OpSetHeader("Content-Type", JsonContentType),
                      OpSetHeader("Content-Length", "4"),
                      OpEnd("null")>>)
         ELSE Calls(m, "withRest", <<OpJson(json)>>)

\* lines 121-139: the handler has returned json
Success(m, json) ==
    IF m.res.headersSent
    THEN IF json # Undefined THEN LogError(m, SentAndReturned) ELSE m
    ELSE IF IsNullish(json)
         THEN Calls(m, "withRest",
                    <<OpSetHeader("Content-Type", JsonContentType),
                      OpSetHeader("Content-Length", "4"),
                      OpEnd("null")>>)
         ELSE Calls(m, "withRest", <<OpJson(json)>>)

\* the wrapping of release 1.0.0, which dropped the error it wrapped
WrapWithoutOriginal(err) ==
    IF ~IsBoom(err) THEN BoomInternal("foo", Null) ELSE err

\* line 142-144: Not an ApiError? Then wrap it into an ApiError
Wrap(err) ==
    IF ~IsBoom(err) THEN BoomInternal("foo", DataOriginal(err)) ELSE err

\* the catch block with the two hooks in the other order
CatchSendsFirst(m, err) ==
    LET e == Wrap(err)
        sent == SendError([m EXCEPT !.threw = FALSE], e)
    IN IF sent.threw THEN sent ELSE LogError(sent, e)

\* lines 140-148: the catch block
Catch(m, err) ==
    LET e == Wrap(err)
        logged == LogError([m EXCEPT !.threw = FALSE], e)
    IN IF logged.threw THEN logged ELSE SendError(logged, e)

\* the try block after the await of line 119, and the catch block behind it
AfterHandler(m, o) ==
    IF o.kind = "throw" THEN Catch(m, o.error)
    ELSE LET tried == Success(m, o.value)
         IN IF tried.threw THEN Catch(tried, ResponseError) ELSE tried

\* the message without the method interpolated
MethodNotAllowedMessageBare(method) ==
    "Method is not supported for this endpoint"

MethodNotAllowedMessage(method) ==
    "Method " \o method \o " is not supported for this endpoint"

\* the end of a run: the promise of withRest settles
Finish(r, m) ==
    /\ res' = [res EXCEPT ![r] = m.res]
    /\ trace' = [trace EXCEPT ![r] = m.trace]
    /\ console' = m.console
    /\ result' = [result EXCEPT ![r] = IF m.threw THEN "rejected" ELSE "resolved"]
    /\ pc' = [pc EXCEPT ![r] = "done"]

(***************************************************************************)
(* The state machine.                                                      *)
(***************************************************************************)
Runs == {1}

Configure ==
    /\ methods \in MethodMaps
    /\ options \in [logError : Hooks, sendError : Hooks]
    /\ console = <<>>

Arrive(runs) ==
    /\ raw \in [runs -> Requests]
    /\ req = raw
    /\ res = [r \in runs |-> NewResponse]
    /\ pc = [r \in runs |-> "start"]
    /\ outcome = [r \in runs |-> Pending]
    /\ seen = [r \in runs |-> Undefined]
    /\ trace = [r \in runs |-> <<>>]
    /\ result = [r \in runs |-> "pending"]

Init == Configure /\ Arrive(Runs)

\* lines 112-117: no handler for the method, the catch block runs at once
NoMethod(r) ==
    /\ pc[r] = "start"
    /\ Lookup(methods, req[r].method) = Undefined
    /\ Finish(r, Catch(Machine(r), BoomMethodNotAllowed(MethodNotAllowedMessage(req[r].method))))
    /\ UNCHANGED <<methods, options, req, raw, outcome, seen>>

\* line 119 with a handler as written: the handler is invoked
CallHandler(r) ==
    /\ pc[r] = "start"
    /\ Lookup(methods, req[r].method) # Undefined
    /\ ~Lookup(methods, req[r].method).validated
    /\ pc' = [pc EXCEPT ![r] = "handler"]
    /\ seen' = [seen EXCEPT ![r] = req[r]]
    /\ trace' = [trace EXCEPT ![r] = Append(@, [ev |-> "handler"])]
    /\ UNCHANGED <<methods, options, req, raw, res, outcome, result, console>>

\* line 119 with a wrapped handler: lines 53-59, up to the await of validateAsync
CallValidation(r) ==
    /\ pc[r] = "start"
    /\ Lookup(methods, req[r].method) # Undefined
    /\ Lookup(methods, req[r].method).validated
    /\ pc' = [pc EXCEPT ![r] = "validating"]
    /\ UNCHANGED <<methods, options, req, raw, res, outcome, seen, trace, result, console>>

\* lines 60-62: validation failed, the wrapper throws a 400
ValidationFailed(r) ==
    LET v == validateAsync(Lookup(methods, req[r].method).schemas, req[r])
    IN /\ pc[r] = "validating"
       /\ ~v.ok
       /\ outcome' = [outcome EXCEPT ![r] = Thrown(ValidationRejected(v.error))]
       /\ pc' = [pc EXCEPT ![r] = "settled"]
       /\ UNCHANGED <<methods, options, req, raw, res, seen, trace, result, console>>

\* lines 64-69: validation passed, req is rewritten and the handler invoked
ValidationPassed(r) ==
    LET v == validateAsync(Lookup(methods, req[r].method).schemas, req[r])
    IN /\ pc[r] = "validating"
       /\ v.ok
       /\ req' = [req EXCEPT ![r] = CopyBack(@, v.value)]
       /\ seen' = [seen EXCEPT ![r] = req'[r]]
       /\ trace' = [trace EXCEPT ![r] = Append(@, [ev |-> "handler"])]
       /\ pc' = [pc EXCEPT ![r] = "handler"]
       /\ UNCHANGED <<methods, options, raw, res, outcome, result, console>>

HandlerWrote(r) == \E i \in 1..Len(trace[r]) : trace[r][i].ev = "res"

\* the handler works on the response itself: res.status(201), res.send(...)
HandlerWrite(r) ==
    /\ pc[r] = "handler"
    /\ ~HandlerWrote(r)
    /\ \E ops \in HandlerWrites :
          LET m == Calls(Machine(r), "handler", ops)
          IN /\ res' = [res EXCEPT ![r] = m.res]
             /\ trace' = [trace EXCEPT ![r] = m.trace]
    /\ UNCHANGED <<methods, options, req, raw, pc, outcome, seen, result, console>>

\* the call of fn inside the try block of lines 58-62: its error becomes a 400
DelegateInsideTry(o) ==
    IF o.kind = "throw" THEN Thrown(ValidationRejected(o.error)) ELSE o

\* line 69: return fn(req, res); the wrapper settles as fn does
Delegate(o) == o

\* how the promise awaited at line 119 settles when the handler came to o
Settled(h, o) == IF h.validated THEN Delegate(o) ELSE o

\* the handler returns or throws: the promise awaited at line 119 settles
HandlerSettle(r) ==
    /\ pc[r] = "handler"
    /\ \E o \in Outcomes(req[r]) :
          /\ outcome' = [outcome EXCEPT ![r] = Settled(Lookup(methods, req[r].method), o)]
          /\ trace' = [trace EXCEPT ![r] = Append(@, [ev |-> "completed", outcome |-> o])]
    /\ pc' = [pc EXCEPT ![r] = "settled"]
    /\ UNCHANGED <<methods, options, req, raw, res, seen, result, console>>

\* lines 121-148: withRest resumes after the await
Resume(r) ==
    /\ pc[r] = "settled"
    /\ Finish(r, AfterHandler(Machine(r), outcome[r]))
    /\ UNCHANGED <<methods, options, req, raw, outcome, seen>>

Next ==
    \E r \in DOMAIN pc :
        \/ NoMethod(r)
        \/ CallHandler(r)
        \/ CallValidation(r)
        \/ ValidationFailed(r)
        \/ ValidationPassed(r)
        \/ HandlerWrite(r)
        \/ HandlerSettle(r)
        \/ Resume(r)

Spec == Init /\ [][Next]_vars

(***************************************************************************)
(* What the claims look at.                                                *)
(***************************************************************************)
LogCalls(r) == SelectSeq(trace[r], LAMBDA e : e.ev = "logError")
SendCalls(r) == SelectSeq(trace[r], LAMBDA e : e.ev = "sendError")
HandlerCalls(r) == SelectSeq(trace[r], LAMBDA e : e.ev = "handler")
ResCalls(r, by) == SelectSeq(trace[r], LAMBDA e : e.ev = "res" /\ e.by = by)
CallsOf(events) == [i \in 1..Len(events) |-> events[i].call]

\* the handler ended the response itself
SentByHandler(r) ==
    \E i \in 1..Len(trace[r]) :
        /\ trace[r][i].ev = "res"
        /\ trace[r][i].by = "handler"
        /\ trace[r][i].call.op = "send"

\* the status the handler left on the response
StatusLeftByHandler(r) == IF ResCalls(r, "handler") # <<>> THEN 201 ELSE 200

Done(r) == pc[r] = "done"
NoHandlerFor(r) == Lookup(methods, raw[r].method) = Undefined
ReturnedBy(r) == outcome[r].kind = "return"
ThrownBy(r) == outcome[r].kind = "throw"
JsonBody(v) == [kind |-> "json", value |-> v]

(***************************************************************************)
(* C1: a request whose method has no entry in the method map (or when no   *)
(* method map was given) invokes no handler; logError and sendError get a  *)
(* 405 "Method Not Allowed" error whose message is "Method <METHOD> is not *)
(* supported for this endpoint"; with the default sendError the response   *)
(* has status 405 and that error's payload as body.                        *)
(***************************************************************************)
C1_Expected(r) ==
    [statusCode |-> 405,
     error |-> "Method Not Allowed",
     message |-> "Method " \o raw[r].method \o " is not supported for this endpoint"]

C1_MethodNotAllowed ==
    \A r \in DOMAIN pc :
        (Done(r) /\ NoHandlerFor(r)) =>
            /\ HandlerCalls(r) = <<>>
            /\ seen[r] = Undefined
            /\ Len(LogCalls(r)) = 1
            /\ Len(SendCalls(r)) = 1
            /\ LogCalls(r)[1].err = SendCalls(r)[1].err
            /\ LET err == SendCalls(r)[1].err
               IN /\ IsBoom(err)
                  /\ err.output.statusCode = 405
                  /\ err.message = C1_Expected(r).message
                  /\ err.output.payload = C1_Expected(r)
            /\ options.sendError = "default" =>
                  /\ res[r].headersSent
                  /\ res[r].statusCode = 405
                  /\ res[r].body = JsonBody(C1_Expected(r))

C1_Witness ==
    \E r \in DOMAIN pc :
        /\ Done(r)
        /\ methods # Undefined
        /\ raw[r].method = "DELETE"
        /\ options.sendError = "default"
        /\ res[r].statusCode = 405

(***************************************************************************)
(* C2: when the handler returns undefined or null and has not sent the     *)
(* response itself, the body is the text null, Content-Type is             *)
(* application/json; charset=utf-8, Content-Length is 4, res.json is not   *)
(* called, and neither logError nor sendError is invoked.                  *)
(***************************************************************************)
C2_NullishBody ==
    \A r \in DOMAIN pc :
        (Done(r) /\ ReturnedBy(r) /\ outcome[r].value \in {Undefined, Null} /\ ~SentByHandler(r)) =>
            /\ res[r].headersSent
            /\ res[r].body = [kind |-> "text", text |-> "null"]
            /\ res[r].headers["Content-Type"] = "application/json; charset=utf-8"
            /\ res[r].headers["Content-Length"] = "4"
            /\ \A i \in 1..Len(trace[r]) :
                  trace[r][i].ev = "res" => trace[r][i].call.op # "json"
            /\ LogCalls(r) = <<>>
            /\ SendCalls(r) = <<>>
            /\ result[r] = "resolved"

C2_Witness ==
    \E r \in DOMAIN pc :
        /\ Done(r)
        /\ outcome[r] = Returned(Null)
        /\ ~SentByHandler(r)
        /\ res[r].body = [kind |-> "text", text |-> "null"]

(***************************************************************************)
(* C3: when the handler returns a value other than undefined and null and  *)
(* has not sent the response itself, the dispatcher makes one call on the  *)
(* response, res.json with that value, which becomes the body; the status  *)
(* is the one the handler left; neither logError nor sendError is invoked. *)
(***************************************************************************)
C3_ValueBody ==
    \A r \in DOMAIN pc :
        (Done(r) /\ ReturnedBy(r) /\ outcome[r].value \notin {Undefined, Null} /\ ~SentByHandler(r)) =>
            /\ CallsOf(ResCalls(r, "withRest")) = <<OpJson(outcome[r].value)>>
            /\ res[r].body = JsonBody(outcome[r].value)
            /\ res[r].statusCode = StatusLeftByHandler(r)
            /\ LogCalls(r) = <<>>
            /\ SendCalls(r) = <<>>
            /\ result[r] = "resolved"

C3_Witness ==
    \E r \in DOMAIN pc :
        /\ Done(r)
        /\ outcome[r] = Returned(Zero)
        /\ ~SentByHandler(r)
        /\ res[r].statusCode = 201
        /\ res[r].body = JsonBody(Zero)

(***************************************************************************)
(* C4: when the handler throws a plain error, logError is invoked once,    *)
(* with a new 500 error that carries the thrown error as originalError;    *)
(* the body the default sendError sends is {statusCode: 500, error:        *)
(* "Internal Server Error", message: "An internal server error occurred"}, *)
(* which has nothing of the thrown error's message.                        *)
(***************************************************************************)
C4_Payload ==
    [statusCode |-> 500,
     error |-> "Internal Server Error",
     message |-> "An internal server error occurred"]

C4_PlainErrorWrapped ==
    \A r \in DOMAIN pc :
        (Done(r) /\ ThrownBy(r) /\ ~IsBoom(outcome[r].error)) =>
            /\ Len(LogCalls(r)) = 1
            /\ Len(SendCalls(r)) = 1
            /\ LogCalls(r)[1].err = SendCalls(r)[1].err
            /\ LET err == LogCalls(r)[1].err
               IN /\ IsBoom(err)
                  /\ err # outcome[r].error
                  /\ err.isServer
                  /\ err.output.statusCode = 500
                  /\ err.data = [t |-> "object", originalError |-> outcome[r].error]
                  /\ err.output.payload = C4_Payload
                  /\ err.output.payload.message # outcome[r].error.message
            /\ options.sendError = "default" =>
                  /\ CallsOf(ResCalls(r, "sendError")) = <<OpStatus(500), OpJson(C4_Payload)>>
                  /\ ~SentByHandler(r) =>
                        /\ res[r].statusCode = 500
                        /\ res[r].body = JsonBody(C4_Payload)

C4_Witness ==
    \E r \in DOMAIN pc :
        /\ Done(r)
        /\ outcome[r] = Thrown(PlainError("bar"))
        /\ options.sendError = "default"
        /\ res[r].body = JsonBody(C4_Payload)

(***************************************************************************)
(* C5: when the handler throws a Boom error, logError and sendError get    *)
(* that very error, and with the default sendError the response carries    *)
(* the error's status, its payload as body and every header of its output. *)
(***************************************************************************)
C5_BoomVerbatim ==
    \A r \in DOMAIN pc :
        (Done(r) /\ ThrownBy(r) /\ IsBoom(outcome[r].error) /\ HandlerCalls(r) # <<>>) =>
            /\ Len(LogCalls(r)) = 1
            /\ Len(SendCalls(r)) = 1
            /\ LogCalls(r)[1].err = outcome[r].error
            /\ SendCalls(r)[1].err = outcome[r].error
            /\ options.sendError = "default" =>
                  LET out == outcome[r].error.output
                  IN /\ res[r].statusCode = out.statusCode
                     /\ res[r].body = JsonBody(out.payload)
                     /\ \A i \in 1..Len(out.headers) :
                           res[r].headers[out.headers[i][1]] = out.headers[i][2]

(***************************************************************************)
(* C6: when the handler has sent the response itself by the time it        *)
(* returns, the response stays as it is; if it returned undefined, nothing *)
(* is called; if it returned a value that is neither undefined nor null,   *)
(* logError is called once with a 500 error and sendError is not called.   *)
(***************************************************************************)
C6_Step(r) ==
    (pc[r] = "settled" /\ pc'[r] = "done" /\ ReturnedBy(r) /\ res[r].headersSent) =>
        /\ res'[r] = res[r]
        /\ result'[r] = "resolved"
        /\ outcome[r].value = Undefined =>
              /\ trace'[r] = trace[r]
              /\ console' = console
        /\ outcome[r].value \notin {Undefined, Null} =>
              /\ Len(trace'[r]) = Len(trace[r]) + 1
              /\ SubSeq(trace'[r], 1, Len(trace[r])) = trace[r]
              /\ LET e == trace'[r][Len(trace'[r])]
                 IN /\ e.ev = "logError"
                    /\ e.impl = options.logError
                    /\ IsBoom(e.err)
                    /\ e.err.isServer
                    /\ e.err.output.statusCode = 500

C6_SentResponseKept == [][\A r \in DOMAIN pc : C6_Step(r)]_vars

C6_Witness ==
    \E r \in DOMAIN pc :
        /\ Done(r)
        /\ SentByHandler(r)
        /\ outcome[r] = Returned(HelloWorld)
        /\ Len(LogCalls(r)) = 1
        /\ SendCalls(r) = <<>>
        /\ res[r].statusCode = 201
        /\ res[r].body = JsonBody(FooBar)

(***************************************************************************)
(* C7: when validation fails the wrapped handler is not invoked and the    *)
(* wrapper throws a 400 "Bad Request" error whose message is the message   *)
(* of the validation error and whose data.originalError is the validation  *)
(* error; with the default hooks the response has status 400, the body     *)
(* {statusCode: 400, error: "Bad Request", message: <that message>}, and   *)
(* nothing is printed.                                                     *)
(***************************************************************************)
HandlerOf(r) == Lookup(methods, raw[r].method)
Wrapped(r) == HandlerOf(r) # Undefined /\ HandlerOf(r).validated
Validation(r) == validateAsync(HandlerOf(r).schemas, raw[r])

RequiredMessages ==
    {"\"query.foo\" is required", "\"body.foo\" is required", "\"headers.foo\" is required"}

C7_ValidationRejects ==
    \A r \in DOMAIN pc :
        (Wrapped(r) /\ ~Validation(r).ok /\ pc[r] \in {"settled", "done"}) =>
            LET failure == Validation(r).error
                payload == [statusCode |-> 400, error |-> "Bad Request",
                            message |-> failure.message]
            IN /\ HandlerCalls(r) = <<>>
               /\ seen[r] = Undefined
               /\ failure.message \in RequiredMessages
               /\ ThrownBy(r)
               /\ IsBoom(outcome[r].error)
               /\ outcome[r].error.message = failure.message
               /\ outcome[r].error.output.statusCode = 400
               /\ outcome[r].error.output.payload = payload
               /\ outcome[r].error.data = [t |-> "object", originalError |-> failure]
               /\ (Done(r) /\ options.sendError = "default" /\ options.logError = "default") =>
                     /\ res[r].statusCode = 400
                     /\ res[r].body = JsonBody(payload)
                     /\ console = <<>>
                     /\ result[r] = "resolved"

C7_Witness ==
    \E r \in DOMAIN pc :
        /\ Done(r)
        /\ Wrapped(r)
        /\ HandlerOf(r).schemas = {"body"}
        /\ raw[r].body = EmptyObject
        /\ options = [logError |-> "default", sendError |-> "default"]
        /\ res[r].statusCode = 400
        /\ res[r].body.value.message = "\"body.foo\" is required"

(***************************************************************************)
(* C8: when validation passes, the handler sees the normalised headers,    *)
(* body and query on req when it is invoked: each of the three equals the  *)
(* value validation produced, and a validated segment holds the trimmed    *)
(* value, not the one that came in.                                        *)
(***************************************************************************)
C8_NormalizedSeen ==
    \A r \in DOMAIN pc :
        (Wrapped(r) /\ seen[r] # Undefined) =>
            /\ Validation(r).ok
            /\ \A key \in KeySet :
                  /\ seen[r][key] = Validation(r).value[key]
                  /\ key \in HandlerOf(r).schemas => seen[r][key] = WithFoo(<<Letter(key)>>)
                  /\ key \notin HandlerOf(r).schemas => seen[r][key] = raw[r][key]
            /\ pc[r] = "handler" => req[r] = seen[r]

C8_Witness ==
    \E r \in DOMAIN pc :
        /\ Wrapped(r)
        /\ seen[r] # Undefined
        /\ HandlerOf(r).schemas = KeySet
        /\ raw[r].headers = WithFoo(<<" ", "h", " ">>)
        /\ seen[r].headers = WithFoo(<<"h">>)
        /\ seen[r].query = WithFoo(<<"q">>)
        /\ seen[r].body = WithFoo(<<"b">>)

(***************************************************************************)
(* C9: for every failing request (no handler for the method, validation    *)
(* failed, or the handler threw) the configured logError and the           *)
(* configured sendError are each invoked once, with the same final Boom    *)
(* error, and one error response is produced.                              *)
(***************************************************************************)
ErrorResponseOf(r, err) ==
    IF options.sendError = "default"
    THEN /\ res[r].statusCode = err.output.statusCode
         /\ res[r].body = JsonBody(err.output.payload)
    ELSE /\ res[r].statusCode = 500
         /\ res[r].body = JsonBody([t |-> "object", errorMessage |-> err.message])

C9_HooksOnceAndResponse ==
    \A r \in DOMAIN pc :
        (Done(r) /\ (NoHandlerFor(r) \/ ThrownBy(r))) =>
            /\ Len(LogCalls(r)) = 1
            /\ Len(SendCalls(r)) = 1
            /\ LogCalls(r)[1].impl = options.logError
            /\ SendCalls(r)[1].impl = options.sendError
            /\ LogCalls(r)[1].err = SendCalls(r)[1].err
            /\ IsBoom(SendCalls(r)[1].err)
            /\ ErrorResponseOf(r, SendCalls(r)[1].err)

(***************************************************************************)
(* C10: the promise of the function withRest returns is never rejected,    *)
(* whatever the request, the method map, the handler and the hooks.        *)
(***************************************************************************)
C10_NeverRejects ==
    \A r \in DOMAIN pc : result[r] # "rejected"

(***************************************************************************)
(* Where C5, C9 and C10 fail: only in the runs whose handler sent the      *)
(* response itself and then threw.                                         *)
(***************************************************************************)
C5_UnlessSent ==
    \A r \in DOMAIN pc :
        (Done(r) /\ ThrownBy(r) /\ IsBoom(outcome[r].error) /\ HandlerCalls(r) # <<>>
            /\ ~SentByHandler(r) /\ options.sendError = "default") =>
            LET out == outcome[r].error.output
            IN /\ LogCalls(r)[1].err = outcome[r].error
               /\ SendCalls(r)[1].err = outcome[r].error
               /\ res[r].statusCode = out.statusCode
               /\ res[r].body = JsonBody(out.payload)
               /\ \A i \in 1..Len(out.headers) :
                     res[r].headers[out.headers[i][1]] = out.headers[i][2]

C9_UnlessSent ==
    \A r \in DOMAIN pc :
        (Done(r) /\ (NoHandlerFor(r) \/ ThrownBy(r))) =>
            /\ Len(LogCalls(r)) = 1
            /\ Len(SendCalls(r)) = 1
            /\ LogCalls(r)[1].impl = options.logError
            /\ SendCalls(r)[1].impl = options.sendError
            /\ LogCalls(r)[1].err = SendCalls(r)[1].err
            /\ ~SentByHandler(r) => ErrorResponseOf(r, SendCalls(r)[1].err)

C10_RejectedOnlyWhenSent ==
    \A r \in DOMAIN pc :
        Done(r) => (result[r] = "rejected" <=> (SentByHandler(r) /\ ThrownBy(r)))

(***************************************************************************)
(* C11: the default logError prints nothing for an error that is not       *)
(* server-class; for a server-class error it prints one stack: that of     *)
(* data.originalError when one is attached, that of the error otherwise.   *)
(***************************************************************************)
C11_Printed(err) ==
    IF ~err.isServer THEN <<>>
    ELSE IF err.data # Null /\ err.data.originalError # Undefined
         THEN <<"Error: " \o err.data.originalError.message>>
         ELSE <<"Error: " \o err.message>>

C11_Step(r) ==
    (options.logError = "default" /\ trace'[r] # trace[r]) =>
        IF LogCalls(r)' = LogCalls(r)
        THEN console' = console
        ELSE /\ Len(LogCalls(r)') = Len(LogCalls(r)) + 1
             /\ console' = console \o C11_Printed(LogCalls(r)'[Len(LogCalls(r)')].err)

C11_DefaultLogError == [][\A r \in DOMAIN pc : C11_Step(r)]_vars

C11_Witness ==
    \E r \in DOMAIN pc :
        /\ Done(r)
        /\ options.logError = "default"
        /\ outcome[r] = Thrown(BoomInternal("foo", DataOriginal(PlainError("bar"))))
        /\ Len(LogCalls(r)) = 1
        /\ console = <<"Error: bar">>

(***************************************************************************)
(* C12: once the handler has sent the response itself, the dispatcher      *)
(* makes no call on the response for the rest of the request, however the  *)
(* handler completes: no setHeader, end or json, and no sendError.         *)
(***************************************************************************)
C12_NoActionOnceSent ==
    \A r \in DOMAIN pc :
        SentByHandler(r) =>
            /\ ResCalls(r, "withRest") = <<>>
            /\ ResCalls(r, "sendError") = <<>>
            /\ SendCalls(r) = <<>>

\* what holds of the code: no call when the handler returned
C12_WhenReturned ==
    \A r \in DOMAIN pc :
        (SentByHandler(r) /\ ReturnedBy(r)) =>
            /\ ResCalls(r, "withRest") = <<>>
            /\ ResCalls(r, "sendError") = <<>>
            /\ SendCalls(r) = <<>>

(***************************************************************************)
(* C13: on the error path the handler (if any) has completed, then the     *)
(* error is wrapped if it is not a Boom error, then logError is invoked    *)
(* with the final error, then sendError with the same error; before the    *)
(* handler has completed the dispatcher calls no hook and writes nothing.  *)
(***************************************************************************)
C13_Final(r) ==
    IF NoHandlerFor(r)
    THEN [k |-> "Boom", isServer |-> FALSE, data |-> Null,
          message |-> "Method " \o raw[r].method \o " is not supported for this endpoint",
          output |-> [statusCode |-> 405, headers |-> <<>>,
                      payload |-> [statusCode |-> 405,
                                   error |-> "Method Not Allowed",
                                   message |-> "Method " \o raw[r].method
                                                   \o " is not supported for this endpoint"]]]
    ELSE IF outcome[r].error.k = "Boom" THEN outcome[r].error
    ELSE [k |-> "Boom", message |-> "foo", isServer |-> TRUE,
          data |-> [t |-> "object", originalError |-> outcome[r].error],
          output |-> [statusCode |-> 500, headers |-> <<>>,
                      payload |-> [statusCode |-> 500,
                                   error |-> "Internal Server Error",
                                   message |-> "An internal server error occurred"]]]

C13_ErrorPathOrder ==
    \A r \in DOMAIN pc :
        /\ ~Done(r) =>
              /\ LogCalls(r) = <<>>
              /\ SendCalls(r) = <<>>
              /\ ResCalls(r, "withRest") = <<>>
              /\ ResCalls(r, "sendError") = <<>>
        /\ (Done(r) /\ (NoHandlerFor(r) \/ ThrownBy(r))) =>
              \E i \in 1..Len(trace[r]) - 1 :
                  /\ trace[r][i].ev = "logError"
                  /\ trace[r][i + 1].ev = "sendError"
                  /\ trace[r][i].err = C13_Final(r)
                  /\ trace[r][i + 1].err = C13_Final(r)
                  /\ \A j \in 1..(i - 1) :
                        \/ trace[r][j].ev \in {"handler", "completed"}
                        \/ trace[r][j].ev = "res" /\ trace[r][j].by = "handler"
                  /\ \A j \in (i + 2)..Len(trace[r]) :
                        trace[r][j].ev = "res" /\ trace[r][j].by = "sendError"
                  /\ HandlerCalls(r) # <<>> =>
                        (i > 1 /\ trace[r][i - 1].ev = "completed")

C13_Witness ==
    \E r \in DOMAIN pc :
        /\ Done(r)
        /\ outcome[r] = Thrown(PlainError("bar"))
        /\ Len(trace[r]) = 6
        /\ trace[r][2].ev = "completed"
        /\ trace[r][3].ev = "logError"
        /\ trace[r][4].ev = "sendError"
        /\ trace[r][6].call.op = "json"

(***************************************************************************)
(* C14: when validation passes the wrapped handler is invoked once and the *)
(* wrapper settles as the handler did: same returned value, same thrown    *)
(* error (a Boom error keeps its status, a plain error is not turned into  *)
(* a 400), so withRest answers as it would for the handler unwrapped.      *)
(***************************************************************************)
FnOutcome(r) == SelectSeq(trace[r], LAMBDA e : e.ev = "completed")[1].outcome

C14_Step(r) ==
    (pc[r] = "settled" /\ pc'[r] = "done" /\ Wrapped(r) /\ Validation(r).ok) =>
        LET fn == FnOutcome(r)
            unwrapped == AfterHandler(Machine(r), fn)
        IN /\ Len(HandlerCalls(r)) = 1
           /\ Len(HandlerCalls(r)') = 1
           /\ outcome[r] = fn
           /\ fn.kind = "throw" =>
                 /\ Len(SendCalls(r)') = 1
                 /\ SendCalls(r)'[1].err.output.statusCode =
                       (IF fn.error.k = "Boom" THEN fn.error.output.statusCode ELSE 500)
                 /\ fn.error.k = "Boom" => SendCalls(r)'[1].err = fn.error
                 /\ fn.error.k # "Boom" =>
                       SendCalls(r)'[1].err.data = [t |-> "object", originalError |-> fn.error]
           /\ (fn.kind = "return" /\ ~res[r].headersSent /\ fn.value \notin {Undefined, Null}) =>
                 res'[r].body = JsonBody(fn.value)
           /\ res'[r] = unwrapped.res
           /\ trace'[r] = unwrapped.trace
           /\ console' = unwrapped.console

C14_WrapperTransparent == [][\A r \in DOMAIN pc : C14_Step(r)]_vars

C14_Witness ==
    \E r \in DOMAIN pc :
        /\ Done(r)
        /\ Wrapped(r)
        /\ HandlerOf(r).schemas = {"body"}
        /\ Len(HandlerCalls(r)) = 1
        /\ outcome[r] = Thrown(PlainError("bar"))
        /\ options.sendError = "default"
        /\ res[r].statusCode = 500

(***************************************************************************)
(* Two requests handled by one withRest instance, their stretches          *)
(* interleaved in any order.                                               *)
(***************************************************************************)
TwoRuns == {1, 2}

TwoMaps ==
    {Undefined,
     [t |-> "object",
      h |-> [m \in {"GET", "POST"} |->
                IF m = "GET" THEN PlainHandler ELSE ValidatedHandler(KeySet)]]}

TwoRequests ==
    {Request("GET", {}, 0, 0), Request("POST", {}, 0, 0),
     Request("POST", KeySet, MaxPad, MaxPad)}

InitTwo ==
    /\ methods \in TwoMaps
    /\ raw \in [TwoRuns -> TwoRequests]
    /\ Configure
    /\ Arrive(TwoRuns)

SpecTwo == InitTwo /\ [][Next]_vars

(***************************************************************************)
(* C15: nothing is kept across requests: a step of one run leaves the      *)
(* other run, the method map and the options as they are, and two runs     *)
(* with the same request whose handlers did the same end with the same     *)
(* response, the same hook calls and the same result.                      *)
(***************************************************************************)
RunState(r) == <<req[r], res[r], pc[r], outcome[r], seen[r], trace[r], result[r]>>

C15_SameEnd ==
    \A r1, r2 \in DOMAIN pc :
        (/\ Done(r1) /\ Done(r2)
         /\ raw[r1] = raw[r2]
         /\ outcome[r1] = outcome[r2]
         /\ ResCalls(r1, "handler") = ResCalls(r2, "handler")) =>
            /\ res[r1] = res[r2]
            /\ trace[r1] = trace[r2]
            /\ result[r1] = result[r2]

C15_Step ==
    /\ methods' = methods
    /\ options' = options
    /\ \A r1, r2 \in DOMAIN pc :
          (r1 # r2 /\ RunState(r1)' # RunState(r1)) => RunState(r2)' = RunState(r2)
    /\ C15_SameEnd'

C15_NoSharedState == [][C15_Step]_vars

C15_Witness ==
    /\ DOMAIN pc = TwoRuns
    /\ Done(1) /\ Done(2)
    /\ methods # Undefined
    /\ raw[1] = raw[2]
    /\ raw[1].method = "POST"
    /\ outcome[1] = Returned(FooBar)
    /\ outcome[2] = Returned(FooBar)
    /\ res[1].body = JsonBody(FooBar)
    /\ res[1] = res[2]
    /\ trace[1] = trace[2]

(***************************************************************************)
(* C16: when the handler returned, logError is invoked once if the handler *)
(* had sent the response and the returned value is not undefined (null     *)
(* included), and not at all otherwise; with the response not yet sent,    *)
(* null is answered like undefined.                                        *)
(***************************************************************************)
C16_ReportedWhenNotUndefined ==
    \A r \in DOMAIN pc :
        (Done(r) /\ ReturnedBy(r)) =>
            /\ Len(LogCalls(r)) =
                  (IF SentByHandler(r) /\ outcome[r].value # Undefined THEN 1 ELSE 0)
            /\ SendCalls(r) = <<>>
            /\ LogCalls(r) # <<>> =>
                  /\ LogCalls(r)[1].err.k = "Boom"
                  /\ LogCalls(r)[1].err.output.statusCode = 500
                  /\ LogCalls(r)[1].impl = options.logError
            /\ (~SentByHandler(r) /\ outcome[r].value \in {Undefined, Null}) =>
                  res[r].body = [kind |-> "text", text |-> "null"]

C16_Witness ==
    \E r \in DOMAIN pc :
        /\ Done(r)
        /\ SentByHandler(r)
        /\ outcome[r] = Returned(Null)
        /\ Len(LogCalls(r)) = 1
        /\ res[r].body = JsonBody(FooBar)

====
